---- MODULE Spec2Model ----
(***************************************************************************)
(* SubTrack: billing-date calculation, notification jobs, dispatch and     *)
(* scheduler setup, modelled from src/subtracknew123/app.py and models.py. *)
(*                                                                         *)
(* Money is counted in whole currency units.  A timestamp is a calendar    *)
(* date plus an hour of the day; hour 0 stands for exactly 00:00:00.       *)
(***************************************************************************)
EXTENDS Integers, Sequences, FiniteSets, TLC

VARIABLES
    now,            \* the clock: what datetime.now() returns
    users,          \* table users: sequence of rows, the id is the index
    subscriptions,  \* table subscriptions: sequence of rows
    outbox,         \* the dispatches of the last handler, in call order
    job,            \* the last run of a scheduled job function
    calc,           \* the last call of a date calculation
    reminded,       \* history: every reminder attempted so far
    lastRun,        \* history: ordinal of the day of the last reminder run
    tally,          \* history: runs of the budget job and alerts per user
    schedulers,     \* the scheduler objects that init_scheduler has started
    request         \* the last request of the web application and its answer

vars == <<now, users, subscriptions, outbox, job, calc, reminded, lastRun,
          tally, schedulers, request>>

(***************************************************************************)
(* Bounds of the model                                                     *)
(***************************************************************************)
\* Calendar years the clock is drawn from: a common year, a leap year, a
\* century leap year and a century common year.
Years == {2000, 2023, 2024, 2100}

\* Hours of the day the clock is drawn from (0 is midnight sharp, 9 the
\* hour of the scheduled jobs).
Hours == {0, 9, 23}

\* Number of rows in table users
NumUsers == 2

\* Largest number of rows in table subscriptions
MaxSubs == 2

\* Number of days the daily schedule is followed
HorizonDays == 100

\* Largest number of runs of the budget job in one behaviour
MaxRuns == 2

\* Largest number of calls of init_scheduler in one process
MaxInits == 2

\* Number of days the schedulers are followed
SchedDays == 2

\* Largest number of jobs that raise an exception in one run
MaxRaises == 1

\* Largest key of table subscriptions
MaxIds == 3

(***************************************************************************)
(* Calendar arithmetic of the Python standard library, as used by the code *)
(***************************************************************************)
\* calendar.isleap
isleap(year) == year % 4 = 0 /\ (year % 100 # 0 \/ year % 400 = 0)

\* calendar.mdays (index 1..12)
mdays == <<31, 28, 31, 30, 31, 30, 31, 31, 30, 31, 30, 31>>

\* calendar.monthrange(year, month)[1]
monthrange(year, month) ==
    mdays[month] + (IF month = 2 /\ isleap(year) THEN 1 ELSE 0)

Min(a, b) == IF a < b THEN a ELSE b

\* datetime._days_before_year
days_before_year(year) ==
    LET y == year - 1
    IN  y * 365 + (y \div 4) - (y \div 100) + (y \div 400)

RECURSIVE days_before_month(_, _)
\* datetime._days_before_month
days_before_month(year, month) ==
    IF month = 1 THEN 0
    ELSE days_before_month(year, month - 1) + monthrange(year, month - 1)

\* datetime.toordinal of the date (year, month, day)
ymd2ord(year, month, day) ==
    days_before_year(year) + days_before_month(year, month) + day

\* ordinal of the day of a date or timestamp
Ord(t) == ymd2ord(t.year, t.month, t.day)

\* the calendar day after t, same hour
NextDayOf(t) ==
    IF t.day < monthrange(t.year, t.month)
    THEN [t EXCEPT !.day = t.day + 1]
    ELSE IF t.month < 12
         THEN [t EXCEPT !.month = t.month + 1, !.day = 1]
         ELSE [t EXCEPT !.year = t.year + 1, !.month = 1, !.day = 1]

\* (datetime(date, 00:00) - t).days : timedelta normalises to a floor of days
timedelta_days(date, t) ==
    LET hours == (ymd2ord(date.year, date.month, date.day)
                  - ymd2ord(t.year, t.month, t.day)) * 24 - t.hour
    IN  hours \div 24

\* datetime(year, month, day): ValueError when the day is out of range
ValueError == [error |-> "ValueError"]

datetime(year, month, day) ==
    IF day >= 1 /\ day <= monthrange(year, month)
    THEN [year |-> year, month |-> month, day |-> day]
    ELSE ValueError

\* The timestamps the clock can show
Timestamps ==
    { [year |-> y, month |-> m, day |-> d, hour |-> h] :
        y \in Years, m \in 1..12, d \in 1..31, h \in Hours }

ValidTimestamps == { t \in Timestamps : t.day <= monthrange(t.year, t.month) }

(***************************************************************************)
(* get_days_until_payment (app.py)                                         *)
(***************************************************************************)
\* get_days_until_payment with the comparison now.day <= billing_date
days_until_next_date_le(billing_date, t) ==
    LET next_month == IF t.day <= billing_date THEN t.month
                      ELSE IF t.month = 12 THEN 1 ELSE t.month + 1
        next_year  == IF t.day <= billing_date THEN t.year
                      ELSE IF t.month = 12 THEN t.year + 1 ELSE t.year
        max_day    == monthrange(next_year, next_month)
        actual_day == Min(billing_date, max_day)
    IN  datetime(next_year, next_month, actual_day)

\* the date next_date of get_days_until_payment, for the clock value t
days_until_next_date(billing_date, t) ==
    LET next_month == IF t.day < billing_date THEN t.month
                      ELSE IF t.month = 12 THEN 1 ELSE t.month + 1
        next_year  == IF t.day < billing_date THEN t.year
                      ELSE IF t.month = 12 THEN t.year + 1 ELSE t.year
        max_day    == monthrange(next_year, next_month)
        actual_day == Min(billing_date, max_day)
    IN  datetime(next_year, next_month, actual_day)

\* the value get_days_until_payment returns
get_days_until_payment(billing_date, t) ==
    timedelta_days(days_until_next_date(billing_date, t), t)

NoCalc == [op |-> "none"]

\* A call of get_days_until_payment(billing_date) at the current clock
GetDaysUntilPayment(billing_date) ==
    /\ calc = NoCalc
    /\ calc' = [op |-> "get_days_until_payment",
                billing_date |-> billing_date,
                next_date |-> days_until_next_date(billing_date, now),
                days_until |-> get_days_until_payment(billing_date, now)]
    /\ UNCHANGED <<now, users, subscriptions, outbox, job, reminded, lastRun,
                   tally, schedulers, request>>

BillingDays == 1..31

\* No request was handled
NoRequest == [op |-> "none"]

\* No job has run, nothing was dispatched
NoJob == [name |-> "none"]

\* No run of the budget job yet
NoTally ==
    [runs |-> 0, alerted |-> [u \in 1..NumUsers |-> 0],
     over |-> [u \in 1..NumUsers |-> 0]]

InitCalc ==
    /\ now \in ValidTimestamps
    /\ users = << >>
    /\ subscriptions = << >>
    /\ outbox = << >>
    /\ job = NoJob
    /\ calc = NoCalc
    /\ reminded = {}
    /\ lastRun = 0
    /\ tally = NoTally
    /\ schedulers = << >>
    /\ request = NoRequest

(***************************************************************************)
(* Records of the store (models.py)                                        *)
(***************************************************************************)
\* A row of table users; the key is its position in the sequence users
UserRow(budget, pr, ba, ms, ns) ==
    [monthly_budget |-> budget, payment_reminders |-> pr, budget_alerts |-> ba,
     monthly_summary |-> ms, new_subscription |-> ns]

\* A row of table subscriptions
SubRow(id, user_id, price, day) ==
    [id |-> id, user_id |-> user_id, monthly_price |-> price,
     billing_date |-> day]

Range(seq) == { seq[i] : i \in 1..Len(seq) }

\* user.subscriptions: the rows of one owner, in table order
SubsOf(u) == SelectSeq(subscriptions, LAMBDA s : s.user_id = u)

RECURSIVE SumPrices(_)
SumPrices(subs) ==
    IF subs = << >> THEN 0
    ELSE Head(subs).monthly_price + SumPrices(Tail(subs))

\* User.get_total_monthly_cost
get_total_monthly_cost(u) == SumPrices(SubsOf(u))

IsError(x) == "error" \in DOMAIN x

\* calendar.month_name, for strftime('%B')
month_name == <<"January", "February", "March", "April", "May", "June",
                "July", "August", "September", "October", "November",
                "December">>

\* strftime('%B %d, %Y'): month name, two-digit day, year
strftime(date) ==
    [text |-> <<month_name[date.month], date.day \div 10, date.day % 10,
                date.year>>]

\* a copy of the calculation that keeps the current month on the billing day
get_next_payment_date_le(billing_date, t) ==
    LET next_month == IF t.day <= billing_date THEN t.month
                      ELSE IF t.month = 12 THEN 1 ELSE t.month + 1
        next_year  == IF t.day <= billing_date THEN t.year
                      ELSE IF t.month = 12 THEN t.year + 1 ELSE t.year
        max_day    == monthrange(next_year, next_month)
        actual_day == Min(billing_date, max_day)
        next_date  == datetime(next_year, next_month, actual_day)
    IN  IF IsError(next_date) THEN next_date ELSE strftime(next_date)

\* Subscription.get_next_payment_date for the clock value t: the formatted
\* date, or the ValueError of datetime()
get_next_payment_date(billing_date, t) ==
    LET next_month == IF t.day < billing_date THEN t.month
                      ELSE IF t.month = 12 THEN 1 ELSE t.month + 1
        next_year  == IF t.day < billing_date THEN t.year
                      ELSE IF t.month = 12 THEN t.year + 1 ELSE t.year
        max_day    == monthrange(next_year, next_month)
        actual_day == Min(billing_date, max_day)
        next_date  == datetime(next_year, next_month, actual_day)
    IN  IF IsError(next_date) THEN next_date ELSE strftime(next_date)

\* The dashboard entry of a subscription with this billing day: days_until
\* from get_days_until_payment, listed if it is at most 30, with the text of
\* Subscription.get_next_payment_date as its date
Dashboard(billing_date) ==
    /\ calc = NoCalc
    /\ LET days_until == get_days_until_payment(billing_date, now)
       IN  calc' = [op |-> "dashboard",
                    billing_date |-> billing_date,
                    days_until |-> days_until,
                    upcoming |-> days_until <= 30,
                    next_date |-> get_next_payment_date(billing_date, now)]
    /\ UNCHANGED <<now, users, subscriptions, outbox, job, reminded, lastRun,
                   tally, schedulers, request>>

NextCalc ==
    \/ \E d \in BillingDays : GetDaysUntilPayment(d)
    \/ \E d \in BillingDays : Dashboard(d)

SpecCalc == InitCalc /\ [][NextCalc]_vars

(***************************************************************************)
(* Dispatch (app.py): the four send functions                              *)
(***************************************************************************)
\* What the mail library does in a send function: Message(...) raises,
\* mail.send(msg) raises, or the message is accepted
MailOutcomes == {"accepted", "message_raises", "send_raises"}

\* Result of a call: the value returned, or an exception that leaves it
Raised == "Exception"

\* Body of the try block of send_payment_reminder
payment_reminder_try(subscription, t, mail) ==
    IF IsError(get_next_payment_date(subscription.billing_date, t))
    THEN Raised
    ELSE IF mail # "accepted" THEN Raised ELSE "True"

\* Body of the try block of send_budget_alert
budget_alert_try(mail) == IF mail # "accepted" THEN Raised ELSE "True"

\* send_budget_alert without its except clause
send_budget_alert_noexcept(mail) == budget_alert_try(mail)

\* send_budget_alert: try ... return True / except Exception: return False
send_budget_alert(mail) ==
    IF budget_alert_try(mail) = Raised THEN "False" ELSE "True"

\* Body of the try block of send_monthly_summary
monthly_summary_try(mail) == IF mail # "accepted" THEN Raised ELSE "True"

\* send_monthly_summary: try ... return True / except Exception: return False
send_monthly_summary(mail) ==
    IF monthly_summary_try(mail) = Raised THEN "False" ELSE "True"

\* Body of the try block of send_subscription_email
subscription_email_try(mail) == IF mail # "accepted" THEN Raised ELSE "True"

\* send_subscription_email: try ... return True / except Exception: return
\* False
send_subscription_email(mail) ==
    IF subscription_email_try(mail) = Raised THEN "False" ELSE "True"

\* send_payment_reminder without its except clause
send_payment_reminder_noexcept(subscription, t, mail) ==
    payment_reminder_try(subscription, t, mail)

\* send_payment_reminder: try ... return True / except Exception: return False
send_payment_reminder(subscription, t, mail) ==
    IF payment_reminder_try(subscription, t, mail) = Raised
    THEN "False" ELSE "True"

(***************************************************************************)
(* The tables after a job function: the rows are read inside                *)
(* "with app.app_context()", no attribute is assigned, nothing is added,   *)
(* deleted or committed                                                    *)
(***************************************************************************)
\* a job that switches the preference off after its run
users_after_job_flagged(rows) ==
    [i \in 1..Len(rows) |-> [rows[i] EXCEPT !.monthly_summary = FALSE]]

\* table users after a job function
users_after_job(rows) == rows

\* table subscriptions after a job function
subscriptions_after_job(rows) == rows

(***************************************************************************)
(* check_payment_reminders (app.py)                                        *)
(***************************************************************************)
\* the date next_date that check_payment_reminders computes inline
reminder_next_date(billing_date, t) ==
    LET next_month == IF t.day < billing_date THEN t.month
                      ELSE IF t.month = 12 THEN 1 ELSE t.month + 1
        next_year  == IF t.day < billing_date THEN t.year
                      ELSE IF t.month = 12 THEN t.year + 1 ELSE t.year
        max_day    == monthrange(next_year, next_month)
        actual_day == Min(billing_date, max_day)
    IN  datetime(next_year, next_month, actual_day)

\* days_until of check_payment_reminders
reminder_days_until(billing_date, t) ==
    timedelta_days(reminder_next_date(billing_date, t), t)

\* the trigger with a threshold instead of the exact match
reminder_due_le(days_until) == days_until <= 3

\* if days_until == 3
reminder_due(days_until) == days_until = 3

\* the query without its filter
reminder_users_all == [i \in 1..Len(users) |-> i]

\* User.query.filter_by(payment_reminders=True).all(), as ids in key order
reminder_users ==
    SelectSeq([i \in 1..Len(users) |-> i],
              LAMBDA u : users[u].payment_reminders)

RECURSIVE user_sub_pairs(_)
\* the iterations of "for user in users: for subscription in
\* user.subscriptions", in order
user_sub_pairs(us) ==
    IF us = << >> THEN << >>
    ELSE LET u == Head(us)
             subs == SubsOf(u)
         IN  [i \in 1..Len(subs) |-> [user |-> u, sub |-> subs[i]]]
             \o user_sub_pairs(Tail(us))

RECURSIVE reminder_loop(_, _, _, _)
\* The loop of check_payment_reminders from iteration i on; mail[i] is what
\* the notifier does in iteration i.  acc = [log, sent, status].
reminder_loop(pairs, mail, i, acc) ==
    IF i > Len(pairs) THEN acc
    ELSE
      LET p == pairs[i]
          days_until == reminder_days_until(p.sub.billing_date, now)
      IN  IF ~reminder_due(days_until)
          THEN reminder_loop(pairs, mail, i + 1, acc)
          ELSE
            LET r == send_payment_reminder(p.sub, now, mail[i])
                entry == [kind |-> "payment_reminder", user |-> p.user,
                          sub |-> p.sub.id, days_until |-> days_until,
                          billing_date |-> p.sub.billing_date,
                          next_date |->
                              reminder_next_date(p.sub.billing_date, now),
                          mail |-> mail[i], result |-> r]
                log == Append(acc.log, entry)
            IN  IF r = Raised
                THEN [log |-> log, sent |-> acc.sent, status |-> "raised"]
                ELSE reminder_loop(pairs, mail, i + 1,
                        [log |-> log,
                         sent |-> IF r = "True" THEN acc.sent + 1 ELSE acc.sent,
                         status |-> acc.status])

JobStart == [log |-> << >>, sent |-> 0, status |-> "complete"]

\* One run of check_payment_reminders
CheckPaymentReminders ==
    LET pairs == user_sub_pairs(reminder_users)
    IN  \E mail \in [1..Len(pairs) -> MailOutcomes] :
          LET r == reminder_loop(pairs, mail, 1, JobStart)
          IN  /\ outbox' = r.log
              /\ job' = [name |-> "payment_reminders", sent |-> r.sent,
                         status |-> r.status]
              /\ reminded' = reminded \cup
                    { [sub |-> r.log[i].sub, date |-> r.log[i].next_date,
                       run |-> ymd2ord(now.year, now.month, now.day)] :
                      i \in 1..Len(r.log) }
              /\ lastRun' = ymd2ord(now.year, now.month, now.day)
              /\ users' = users_after_job(users)
              /\ subscriptions' = subscriptions_after_job(subscriptions)
              /\ UNCHANGED <<now, calc, tally, schedulers, request>>

(***************************************************************************)
(* Specification of single runs of the reminder job over bounded stores    *)
(***************************************************************************)
\* stores of at most MaxSubs subscriptions, ids 1..n in table order
Stores(owners, prices, days) ==
    UNION { { [i \in 1..n |-> SubRow(i, f[i][1], f[i][2], f[i][3])] :
              f \in [1..n -> owners \X prices \X days] } : n \in 0..MaxSubs }

\* billing days of the stores of the reminder runs
ReminderDays == {5, 28, 31}

\* clock values of the reminder runs: January and February 2024
ReminderClock ==
    { t \in ValidTimestamps :
        t.year = 2024 /\ t.month \in {1, 2} /\ t.hour \in {0, 9} }

InitReminders ==
    /\ now \in ReminderClock
    /\ users \in [1..NumUsers ->
                    { UserRow(0, pr, TRUE, FALSE, TRUE) : pr \in BOOLEAN }]
    /\ subscriptions \in Stores(1..NumUsers, {5}, ReminderDays)
    /\ outbox = << >>
    /\ job = NoJob
    /\ calc = NoCalc
    /\ reminded = {}
    /\ lastRun = 0
    /\ tally = NoTally
    /\ schedulers = << >>
    /\ request = NoRequest

NextReminders == CheckPaymentReminders

SpecReminders == InitReminders /\ [][NextReminders]_vars

(***************************************************************************)
(* check_budget_alerts (app.py)                                            *)
(***************************************************************************)
\* the query without the condition on monthly_budget
budget_users_nobudget ==
    SelectSeq([i \in 1..Len(users) |-> i], LAMBDA u : users[u].budget_alerts)

\* User.query.filter(budget_alerts == True, monthly_budget > 0).all()
budget_users ==
    SelectSeq([i \in 1..Len(users) |-> i],
              LAMBDA u : users[u].budget_alerts /\ users[u].monthly_budget > 0)

\* the test with an "already alerted" guard
budget_exceeded_once(u, total_spending, budget_limit) ==
    total_spending > budget_limit /\ tally.alerted[u] = 0

\* if total_spending > budget_limit
budget_exceeded(u, total_spending, budget_limit) ==
    total_spending > budget_limit

RECURSIVE budget_loop(_, _, _, _)
\* The loop of check_budget_alerts from iteration i on
budget_loop(us, mail, i, acc) ==
    IF i > Len(us) THEN acc
    ELSE
      LET u == us[i]
          total_spending == get_total_monthly_cost(u)
          budget_limit == users[u].monthly_budget
      IN  IF ~budget_exceeded(u, total_spending, budget_limit)
          THEN budget_loop(us, mail, i + 1, acc)
          ELSE
            LET overage == total_spending - budget_limit
                r == send_budget_alert(mail[i])
                entry == [kind |-> "budget_alert", user |-> u,
                          total |-> total_spending, budget |-> budget_limit,
                          overage |-> overage, mail |-> mail[i], result |-> r]
                log == Append(acc.log, entry)
            IN  IF r = Raised
                THEN [log |-> log, sent |-> acc.sent, status |-> "raised"]
                ELSE budget_loop(us, mail, i + 1,
                        [log |-> log,
                         sent |-> IF r = "True" THEN acc.sent + 1 ELSE acc.sent,
                         status |-> acc.status])

\* history: the user is over a positive budget and wants alerts
OverBudget(u) ==
    /\ users[u].budget_alerts
    /\ users[u].monthly_budget > 0
    /\ SumPrices(SelectSeq(subscriptions, LAMBDA s : s.user_id = u))
         > users[u].monthly_budget

\* One run of check_budget_alerts
CheckBudgetAlerts ==
    /\ tally.runs < MaxRuns
    /\ \E mail \in [1..Len(budget_users) -> MailOutcomes] :
          LET r == budget_loop(budget_users, mail, 1, JobStart)
              got == { r.log[i].user : i \in 1..Len(r.log) }
          IN  /\ outbox' = r.log
              /\ job' = [name |-> "budget_alerts", sent |-> r.sent,
                         status |-> r.status]
              /\ tally' =
                   [runs |-> tally.runs + 1,
                    alerted |-> [u \in 1..NumUsers |->
                        IF u \in got THEN tally.alerted[u] + 1
                        ELSE tally.alerted[u]],
                    over |-> [u \in 1..NumUsers |->
                        IF u <= Len(users) /\ OverBudget(u)
                        THEN tally.over[u] + 1 ELSE tally.over[u]]]
    /\ users' = users_after_job(users)
    /\ subscriptions' = subscriptions_after_job(subscriptions)
    /\ UNCHANGED <<now, calc, reminded, lastRun, schedulers, request>>

(***************************************************************************)
(* delete_subscription (app.py)                                            *)
(***************************************************************************)
\* The request POST /subscription/delete/<subscription_id> of the logged-in
\* user session_user.  An unknown id answers 404, another owner's row is
\* refused, a failing commit is rolled back: the table stays as it is.
DeleteSubscription(session_user, subscription_id) ==
    /\ \E s \in Range(subscriptions) :
          s.id = subscription_id /\ s.user_id = session_user
    /\ subscriptions' =
          SelectSeq(subscriptions, LAMBDA s : s.id # subscription_id)
    /\ UNCHANGED <<now, users, outbox, job, calc, reminded, lastRun, tally,
                   schedulers, request>>

(***************************************************************************)
(* Specification of runs of the budget job over bounded stores             *)
(***************************************************************************)
\* budgets of the stored users: register stores any number
Budgets == {-5, 0, 5}

\* prices of the stored subscriptions
Prices == {5, 6}

FixedClock == [year |-> 2024, month |-> 1, day |-> 1, hour |-> 9]

InitBudget ==
    /\ now = FixedClock
    /\ users \in [1..NumUsers ->
                    { UserRow(b, TRUE, ba, FALSE, TRUE) :
                        b \in Budgets, ba \in BOOLEAN }]
    /\ subscriptions \in Stores(1..NumUsers, Prices, {15})
    /\ outbox = << >>
    /\ job = NoJob
    /\ calc = NoCalc
    /\ reminded = {}
    /\ lastRun = 0
    /\ tally = NoTally
    /\ schedulers = << >>
    /\ request = NoRequest

NextBudget ==
    \/ CheckBudgetAlerts
    \/ \E u \in 1..NumUsers, id \in 1..MaxSubs : DeleteSubscription(u, id)

SpecBudget == InitBudget /\ [][NextBudget]_vars

(***************************************************************************)
(* send_all_monthly_summaries (app.py)                                     *)
(***************************************************************************)
\* the query without its filter
summary_users_all == [i \in 1..Len(users) |-> i]

\* User.query.filter_by(monthly_summary=True).all()
summary_users ==
    SelectSeq([i \in 1..Len(users) |-> i], LAMBDA u : users[u].monthly_summary)

RECURSIVE summary_loop(_, _, _, _)
\* The loop of send_all_monthly_summaries from iteration i on
summary_loop(us, mail, i, acc) ==
    IF i > Len(us) THEN acc
    ELSE
      LET u == us[i]
          subs == SubsOf(u)
          total_monthly == get_total_monthly_cost(u)
          subscription_count == Len(subs)
          r == send_monthly_summary(mail[i])
          entry == [kind |-> "monthly_summary", user |-> u,
                    total |-> total_monthly, count |-> subscription_count,
                    subs |-> subs, mail |-> mail[i], result |-> r]
          log == Append(acc.log, entry)
      IN  IF r = Raised
          THEN [log |-> log, sent |-> acc.sent, status |-> "raised"]
          ELSE summary_loop(us, mail, i + 1,
                  [log |-> log,
                   sent |-> IF r = "True" THEN acc.sent + 1 ELSE acc.sent,
                   status |-> acc.status])

\* One run of send_all_monthly_summaries
SendAllMonthlySummaries ==
    /\ \E mail \in [1..Len(summary_users) -> MailOutcomes] :
          LET r == summary_loop(summary_users, mail, 1, JobStart)
          IN  /\ outbox' = r.log
              /\ job' = [name |-> "monthly_summary", sent |-> r.sent,
                         status |-> r.status]
    /\ users' = users_after_job(users)
    /\ subscriptions' = subscriptions_after_job(subscriptions)
    /\ UNCHANGED <<now, calc, reminded, lastRun, tally, schedulers, request>>

InitSummary ==
    /\ now = FixedClock
    /\ users \in [1..NumUsers ->
                    { UserRow(b, TRUE, ba, ms, TRUE) :
                        b \in {0, 5}, ba \in BOOLEAN, ms \in BOOLEAN }]
    /\ subscriptions \in Stores(1..NumUsers, Prices, {15})
    /\ outbox = << >>
    /\ job = NoJob
    /\ calc = NoCalc
    /\ reminded = {}
    /\ lastRun = 0
    /\ tally = NoTally
    /\ schedulers = << >>
    /\ request = NoRequest

NextSummary == SendAllMonthlySummaries

SpecSummary == InitSummary /\ [][NextSummary]_vars

(***************************************************************************)
(* The four send functions called on their own                             *)
(***************************************************************************)
\* billing days handed to send_payment_reminder; 0 makes datetime() raise
DispatchDays == {0, 15, 31}

SendPaymentReminder(u, day, mail) ==
    /\ outbox' = << [kind |-> "payment_reminder", user |-> u, sub |-> 1,
                     days_until |-> 3, billing_date |-> day, mail |-> mail,
                     result |->
                        send_payment_reminder(SubRow(1, u, 5, day), now, mail)] >>
    /\ UNCHANGED <<now, users, subscriptions, job, calc, reminded, lastRun,
                   tally, schedulers, request>>

SendBudgetAlert(u, total, limit, mail) ==
    /\ outbox' = << [kind |-> "budget_alert", user |-> u, total |-> total,
                     budget |-> limit, overage |-> total - limit,
                     mail |-> mail, result |-> send_budget_alert(mail)] >>
    /\ UNCHANGED <<now, users, subscriptions, job, calc, reminded, lastRun,
                   tally, schedulers, request>>

SendMonthlySummary(u, total, mail) ==
    /\ outbox' = << [kind |-> "monthly_summary", user |-> u, total |-> total,
                     count |-> 0, subs |-> << >>, mail |-> mail,
                     result |-> send_monthly_summary(mail)] >>
    /\ UNCHANGED <<now, users, subscriptions, job, calc, reminded, lastRun,
                   tally, schedulers, request>>

SendSubscriptionEmail(u, price, mail) ==
    /\ outbox' = << [kind |-> "new_subscription", user |-> u, price |-> price,
                     mail |-> mail, result |-> send_subscription_email(mail)] >>
    /\ UNCHANGED <<now, users, subscriptions, job, calc, reminded, lastRun,
                   tally, schedulers, request>>

InitDispatch ==
    /\ now \in ReminderClock
    /\ users = [u \in 1..NumUsers |-> UserRow(0, TRUE, TRUE, FALSE, TRUE)]
    /\ subscriptions = << >>
    /\ outbox = << >>
    /\ job = NoJob
    /\ calc = NoCalc
    /\ reminded = {}
    /\ lastRun = 0
    /\ tally = NoTally
    /\ schedulers = << >>
    /\ request = NoRequest

NextDispatch ==
    \E u \in 1..NumUsers, mail \in MailOutcomes :
        \/ \E day \in DispatchDays : SendPaymentReminder(u, day, mail)
        \/ \E total \in Prices : SendBudgetAlert(u, total, 5, mail)
        \/ \E total \in Prices : SendMonthlySummary(u, total, mail)
        \/ \E price \in Prices : SendSubscriptionEmail(u, price, mail)

SpecDispatch == InitDispatch /\ [][NextDispatch]_vars

(***************************************************************************)
(* init_scheduler (app.py) and the scheduler objects it creates            *)
(***************************************************************************)
JobIds == {"payment_reminders", "budget_alerts", "monthly_summary"}

\* CronTrigger(hour=9, minute=0) and CronTrigger(day=1, hour=9, minute=0):
\* whether the trigger of job id is due at the clock value t
trigger_due(id, t) ==
    /\ t.hour = 9
    /\ id = "monthly_summary" => t.day = 1

\* BackgroundScheduler(): a new scheduler with its own, empty job store
BackgroundScheduler == [state |-> "stopped", jobs |-> {}]

\* scheduler.add_job(..., id=id, replace_existing=True): a job with the same
\* id in the job store of this scheduler is replaced
add_job(scheduler, id) ==
    [scheduler EXCEPT !.jobs =
        { j \in scheduler.jobs : j.id # id }
        \cup { [id |-> id, instances |-> 0, last_fire |-> 0,
                 last_raise |-> 0] }]

\* init_scheduler: the schedulers of the process after one more call
init_scheduler(ss) ==
    LET scheduler == BackgroundScheduler
        s1 == add_job(scheduler, "payment_reminders")
        s2 == add_job(s1, "budget_alerts")
        s3 == add_job(s2, "monthly_summary")
        started == [s3 EXCEPT !.state = "running"]
    IN  Append(ss, started)

\* first clock value of the scheduler runs: the day before a first of month
SchedStart == [year |-> 2024, month |-> 1, day |-> 31, hour |-> 8]

\* A call of init_scheduler: the calls happen on the day the process starts
\* (the main block, and again in the child process of the debug reloader)
InitScheduler ==
    /\ Len(schedulers) < MaxInits
    /\ Ord(now) = Ord(SchedStart)
    /\ schedulers' = init_scheduler(schedulers)
    /\ UNCHANGED <<now, users, subscriptions, outbox, job, calc, reminded,
                   lastRun, tally, request>>

\* The jobs of a scheduler after it has processed its due jobs at time t:
\* every job whose trigger is due and that has not fired at this time gets an
\* instance submitted, unless one is still running (max_instances is 1 by
\* default), and its fire time moves on either way
process_jobs(jobs, t) ==
    { IF trigger_due(j.id, t) /\ j.last_fire < Ord(t)
      THEN [j EXCEPT !.last_fire = Ord(t),
                     !.instances = IF @ < 1 THEN @ + 1 ELSE @]
      ELSE j : j \in jobs }

\* Scheduler k wakes up at a due time: the three triggers fire at the same
\* minute, so one pass starts every due job
Due(k) ==
    /\ schedulers[k].state = "running"
    /\ \E j \in schedulers[k].jobs :
          trigger_due(j.id, now) /\ j.last_fire < Ord(now)
    /\ schedulers' = [schedulers EXCEPT ![k].jobs = process_jobs(@, now)]
    /\ UNCHANGED <<now, users, subscriptions, outbox, job, calc, reminded,
                   lastRun, tally, request>>

\* What an invocation of a job function does: it returns, or an exception
\* leaves it (the job functions have no try block of their own: a failing
\* store read propagates)
JobOutcomes == {"returned", "raised"}

\* the invocations that have raised so far, one counted per job and scheduler
Raises ==
    Cardinality({ <<k, id>> \in (1..Len(schedulers)) \X JobIds :
                    \E j \in schedulers[k].jobs :
                        j.id = id /\ j.last_raise > 0 })

\* an executor that lets the exception of a job end the scheduler
job_done_stops(scheduler, j, outcome) ==
    [scheduler EXCEPT
        !.state = IF outcome = "raised" THEN "stopped" ELSE @,
        !.jobs = (@ \ {j}) \cup
                 { [j EXCEPT !.instances = @ - 1,
                             !.last_raise = IF outcome = "raised"
                                            THEN Ord(now) ELSE @] }]

\* The scheduler after an instance of job j has ended: the executor of the
\* scheduler catches and logs the exception of a job, releases the instance
\* and leaves the scheduler and its job store as they are
job_done(scheduler, j, outcome) ==
    [scheduler EXCEPT
        !.jobs = (@ \ {j}) \cup
                 { [j EXCEPT !.instances = @ - 1,
                             !.last_raise = IF outcome = "raised"
                                            THEN Ord(now) ELSE @] }]

\* An instance of job id of scheduler k ends.  The tables are empty in these
\* runs, so a job function that returns has sent nothing and stored nothing.
JobEnds(k, id, outcome) ==
    /\ outcome = "raised" => Raises < MaxRaises
    /\ \E j \in schedulers[k].jobs :
          /\ j.id = id
          /\ j.instances > 0
          /\ schedulers' = [schedulers EXCEPT ![k] = job_done(@, j, outcome)]
    /\ UNCHANGED <<now, users, subscriptions, outbox, job, calc, reminded,
                   lastRun, tally, request>>

\* An hour passes: 8, 9, 10, then 8 of the next day.  The hour of the
\* triggers passes when every running scheduler has processed its due jobs
\* and the invocations have ended (a job run takes less than an hour).
HourPasses ==
    /\ now.hour = 9 =>
          \A k \in 1..Len(schedulers) : \A j \in schedulers[k].jobs :
              (schedulers[k].state = "running" /\ trigger_due(j.id, now))
                  => j.last_fire = Ord(now)
    /\ now.hour = 9 =>
          \A k \in 1..Len(schedulers) : \A j \in schedulers[k].jobs :
              j.instances = 0
    /\ Ord(now) - Ord(SchedStart) < SchedDays \/ now.hour < 10
    /\ now' = IF now.hour < 10 THEN [now EXCEPT !.hour = @ + 1]
              ELSE [NextDayOf(now) EXCEPT !.hour = 8]
    /\ UNCHANGED <<users, subscriptions, outbox, job, calc, reminded, lastRun,
                   tally, schedulers, request>>

InitSched ==
    /\ now = SchedStart
    /\ users = << >>
    /\ subscriptions = << >>
    /\ outbox = << >>
    /\ job = NoJob
    /\ calc = NoCalc
    /\ reminded = {}
    /\ lastRun = 0
    /\ tally = NoTally
    /\ schedulers = << >>
    /\ request = NoRequest

NextSched ==
    \/ InitScheduler
    \/ \E k \in 1..Len(schedulers) : Due(k)
    \/ \E k \in 1..Len(schedulers), id \in JobIds, outcome \in JobOutcomes :
          JobEnds(k, id, outcome)
    \/ HourPasses

SpecSched == InitSched /\ [][NextSched]_vars

(***************************************************************************)
(* Specification of the three job functions over one store                 *)
(***************************************************************************)
\* clock values of the job runs: billing day 5 is 3 days away on the first
JobsClock ==
    { [year |-> 2024, month |-> 1, day |-> 1, hour |-> 9],
      [year |-> 2024, month |-> 1, day |-> 2, hour |-> 9] }

\* the users have all three job preferences on, or all off; the subscriptions
\* are those of the first user
InitJobs ==
    /\ now \in JobsClock
    /\ users \in { [u \in 1..NumUsers |-> UserRow(5, on, on, on, TRUE)] :
                      on \in BOOLEAN }
    /\ subscriptions \in Stores({1}, {6}, {5})
    /\ outbox = << >>
    /\ job = NoJob
    /\ calc = NoCalc
    /\ reminded = {}
    /\ lastRun = 0
    /\ tally = NoTally
    /\ schedulers = << >>
    /\ request = NoRequest

NextJobs ==
    \/ CheckPaymentReminders
    \/ CheckBudgetAlerts
    \/ SendAllMonthlySummaries

SpecJobs == InitJobs /\ [][NextJobs]_vars

(***************************************************************************)
(* The reminder job under its daily schedule (init_scheduler: CronTrigger  *)
(* hour=9, minute=0), every run taking place                               *)
(***************************************************************************)
\* first days of the observed periods, at the hour of the trigger
DailyStarts ==
    { [year |-> 2022, month |-> 12, day |-> 1, hour |-> 9],
      [year |-> 2023, month |-> 4, day |-> 1, hour |-> 9],
      [year |-> 2023, month |-> 12, day |-> 1, hour |-> 9] }

\* the first day of the period that t lies in
StartOf(t) ==
    CHOOSE s \in DailyStarts : Ord(s) <= Ord(t) /\ Ord(t) - Ord(s) <= HorizonDays

\* the trigger of job payment_reminders fires: 09:00, once a day
FireReminders ==
    /\ now.hour = 9
    /\ lastRun < Ord(now)
    /\ CheckPaymentReminders

\* the day passes, after the run of that day
DayPasses ==
    /\ lastRun = Ord(now)
    /\ Ord(now) - Ord(StartOf(now)) < HorizonDays
    /\ now' = NextDayOf(now)
    /\ UNCHANGED <<users, subscriptions, outbox, job, calc, reminded, lastRun,
                   tally, schedulers, request>>

InitDaily ==
    /\ now \in DailyStarts
    /\ users \in [1..NumUsers ->
                    { UserRow(0, pr, TRUE, FALSE, TRUE) : pr \in BOOLEAN }]
    /\ subscriptions \in { <<SubRow(1, 1, 5, d)>> : d \in BillingDays }
    /\ outbox = << >>
    /\ job = NoJob
    /\ calc = NoCalc
    /\ reminded = {}
    /\ lastRun = 0
    /\ tally = NoTally
    /\ schedulers = << >>
    /\ request = NoRequest

NextDaily == FireReminders \/ DayPasses

SpecDaily == InitDaily /\ [][NextDaily]_vars

(***************************************************************************)
(* add_subscription (app.py): the request handler and its form values      *)
(***************************************************************************)
\* A form value: the empty string, a text that is no number ("abc"), the
\* text "nan", a decimal text ("5.0") or an integer text ("5")
FormValues(kinds, decimals, integers) ==
    { [kind |-> k] : k \in kinds }
        \cup { [kind |-> "decimal", value |-> v] : v \in decimals }
        \cup { [kind |-> "integer", value |-> v] : v \in integers }

\* float(s): the number, NaN for "nan", the ValueError of a text
float(s) ==
    CASE s.kind \in {"decimal", "integer"} -> [value |-> s.value]
      [] s.kind = "nan" -> [nan |-> TRUE]
      [] OTHER -> ValueError

\* int(s): the number of an integer text, a ValueError otherwise
int(s) == IF s.kind = "integer" THEN [value |-> s.value] ELSE ValueError

isnan(x) == "nan" \in DOMAIN x

\* commit of a row with this value in a Float column declared nullable=False:
\* the SQLite driver binds NaN as NULL, which the constraint refuses
commit_not_null(x) == IF isnan(x) THEN Raised ELSE "committed"

\* add_subscription with the lower limit of the day at 0
add_subscription_day0(name, monthly_price, billing_date) ==
    IF name = "" \/ monthly_price.kind = "empty" \/ billing_date.kind = "empty"
    THEN [answer |-> "required"]
    ELSE LET price == float(monthly_price)
             day == int(billing_date)
         IN  IF IsError(price) \/ IsError(day) THEN [answer |-> "invalid"]
             ELSE IF ~isnan(price) /\ price.value <= 0
                  THEN [answer |-> "price"]
             ELSE IF day.value < 0 \/ day.value > 31 THEN [answer |-> "day"]
             ELSE IF commit_not_null(price) = Raised
                  THEN [answer |-> "rolled_back"]
             ELSE [answer |-> "added", price |-> price.value,
                   day |-> day.value]

\* add_subscription up to the commit: the flash message it answers with and,
\* when it has committed, the price and the day of the new row
add_subscription(name, monthly_price, billing_date) ==
    IF name = "" \/ monthly_price.kind = "empty" \/ billing_date.kind = "empty"
    THEN [answer |-> "required"]
    ELSE LET price == float(monthly_price)
             day == int(billing_date)
         IN  IF IsError(price) \/ IsError(day) THEN [answer |-> "invalid"]
             ELSE IF ~isnan(price) /\ price.value <= 0
                  THEN [answer |-> "price"]
             ELSE IF day.value < 1 \/ day.value > 31 THEN [answer |-> "day"]
             ELSE IF commit_not_null(price) = Raised
                  THEN [answer |-> "rolled_back"]
             ELSE [answer |-> "added", price |-> price.value,
                   day |-> day.value]

\* the key of the next row of table subscriptions (INTEGER PRIMARY KEY)
next_id ==
    IF subscriptions = << >> THEN 1
    ELSE 1 + CHOOSE m \in { s.id : s \in Range(subscriptions) } :
                 \A s \in Range(subscriptions) : s.id <= m

\* The request POST /subscription/add of the logged-in user session_user.
\* After the commit the confirmation is sent: send_subscription_email is
\* called whatever the preferences of the user are.
AddSubscription(session_user, name, monthly_price, billing_date) ==
    LET r == add_subscription(name, monthly_price, billing_date)
    IN  /\ r.answer = "added" =>
              Len(subscriptions) < MaxSubs /\ next_id <= MaxIds
        /\ subscriptions' =
              IF r.answer = "added"
              THEN Append(subscriptions,
                          SubRow(next_id, session_user, r.price, r.day))
              ELSE subscriptions
        /\ IF r.answer = "added"
           THEN \E mail \in MailOutcomes :
                  outbox' = << [kind |-> "new_subscription",
                                user |-> session_user, mail |-> mail,
                                result |-> send_subscription_email(mail)] >>
           ELSE outbox' = << >>
        /\ request' = [op |-> "add_subscription", answer |-> r.answer]
        /\ UNCHANGED <<now, users, job, calc, reminded, lastRun, tally,
                       schedulers>>

\* the form values of the requests
Names == {"", "Netflix"}
PriceForms == FormValues({"empty", "text", "nan"}, {}, {-1, 0, 5})
DayForms == FormValues({"empty", "text"}, {5}, {0, 1, 31, 32})

\* the new_subscription preference is on for the first user only
InitSubs ==
    /\ now = FixedClock
    /\ users = [u \in 1..NumUsers |-> UserRow(0, TRUE, TRUE, FALSE, u = 1)]
    /\ subscriptions = << >>
    /\ outbox = << >>
    /\ job = NoJob
    /\ calc = NoCalc
    /\ reminded = {}
    /\ lastRun = 0
    /\ tally = NoTally
    /\ schedulers = << >>
    /\ request = NoRequest

NextSubs ==
    \/ \E u \in 1..NumUsers, name \in Names, p \in PriceForms, d \in DayForms :
          AddSubscription(u, name, p, d)
    \/ \E u \in 1..NumUsers, id \in 1..MaxIds : DeleteSubscription(u, id)

SpecSubs == InitSubs /\ [][NextSubs]_vars

(***************************************************************************)
(* register and update_profile (app.py)                                    *)
(***************************************************************************)
\* User(email=email, monthly_budget=budget) with the column defaults
NewUser(email, budget) ==
    [email |-> email, monthly_budget |-> budget, payment_reminders |-> TRUE,
     budget_alerts |-> TRUE, monthly_summary |-> FALSE,
     new_subscription |-> TRUE]

\* float(monthly_budget) if monthly_budget else 0.0
budget_of(monthly_budget) ==
    IF monthly_budget.kind = "empty" THEN [value |-> 0]
    ELSE float(monthly_budget)

\* The request POST /register of a client that is not logged in.  An email
\* is a number, 0 for the empty field; a password is given by its length.
\* The budget is stored as float() returns it, no sign is looked at; the
\* ValueError of float() is caught by "except Exception" and rolled back.
Register(email, password, monthly_budget) ==
    LET budget == budget_of(monthly_budget)
        answer ==
            IF email = 0 \/ password = 0 THEN "required"
            ELSE IF password < 6 THEN "short"
            ELSE IF \E i \in 1..Len(users) : users[i].email = email
                 THEN "exists"
            ELSE IF IsError(budget) THEN "rolled_back"
            ELSE "registered"
    IN  /\ users' = IF answer = "registered"
                    THEN Append(users, NewUser(email, budget.value))
                    ELSE users
        /\ request' = [op |-> "register", answer |-> answer]
        /\ UNCHANGED <<now, subscriptions, outbox, job, calc, reminded,
                       lastRun, tally, schedulers>>

\* The request POST /profile/update of the logged-in user session_user; flags
\* are the four checkboxes of the form.  A text that is no number answers
\* "Invalid budget amount", a negative budget is refused, both before any
\* attribute is assigned.
UpdateProfile(session_user, new_budget, flags) ==
    LET budget == budget_of(new_budget)
        answer == IF IsError(budget) THEN "invalid"
                  ELSE IF budget.value < 0 THEN "negative"
                  ELSE "updated"
    IN  /\ session_user \in 1..Len(users)
        /\ users' = IF answer = "updated"
                    THEN [users EXCEPT ![session_user] =
                            [@ EXCEPT !.monthly_budget = budget.value,
                                      !.payment_reminders = flags[1],
                                      !.budget_alerts = flags[2],
                                      !.monthly_summary = flags[3],
                                      !.new_subscription = flags[4]]]
                    ELSE users
        /\ request' = [op |-> "update_profile", answer |-> answer]
        /\ UNCHANGED <<now, subscriptions, outbox, job, calc, reminded,
                       lastRun, tally, schedulers>>

\* the form values of the requests; the text "nan" is left out of the budgets
Emails == 0..NumUsers
Passwords == {0, 5, 6}
BudgetForms == FormValues({"empty", "text"}, {}, Budgets)
Checkboxes == { <<TRUE, TRUE, FALSE, TRUE>>, <<FALSE, FALSE, TRUE, FALSE>> }

InitUsers ==
    /\ now = FixedClock
    /\ users = << >>
    /\ subscriptions = << >>
    /\ outbox = << >>
    /\ job = NoJob
    /\ calc = NoCalc
    /\ reminded = {}
    /\ lastRun = 0
    /\ tally = NoTally
    /\ schedulers = << >>
    /\ request = NoRequest

NextUsers ==
    \/ \E email \in Emails, password \in Passwords, b \in BudgetForms :
          Register(email, password, b)
    \/ \E u \in 1..NumUsers, b \in BudgetForms, flags \in Checkboxes :
          UpdateProfile(u, b, flags)

SpecUsers == InitUsers /\ [][NextUsers]_vars

(***************************************************************************)
(* Properties of the billing-date calculation                              *)
(***************************************************************************)
Called == calc.op = "get_days_until_payment"

\* the date (at 00:00) lies strictly after the timestamp t
StrictlyAfter(date, t) ==
    ymd2ord(date.year, date.month, date.day) * 24
        > ymd2ord(t.year, t.month, t.day) * 24 + t.hour

\* C1: for every billing day and every clock value the next payment date
\* that get_days_until_payment computes is strictly after now.
C1_NextDateStrictlyAfterNow ==
    Called => StrictlyAfter(calc.next_date, now)

\* Reference calendar, written without the library tables
RefDaysInMonth(y, m) ==
    CASE m \in {4, 6, 9, 11} -> 30
      [] m = 2 -> IF y % 400 = 0 \/ (y % 4 = 0 /\ y % 100 # 0) THEN 29 ELSE 28
      [] OTHER -> 31

\* months counted from year 0: the month of t, or the one after it
RefMonthIndex(d, t) ==
    t.year * 12 + (t.month - 1) + (IF t.day < d THEN 0 ELSE 1)

RefDate(d, t) ==
    LET k == RefMonthIndex(d, t)
        Y == k \div 12
        M == (k % 12) + 1
    IN  [year |-> Y, month |-> M, day |-> Min(d, RefDaysInMonth(Y, M))]

\* C2: the next payment date is (Y, M, min(d, days_in_month(Y, M))) with
\* (Y, M) the month of now when now.day < d and the following calendar month
\* otherwise (December rolls to January), with exact leap-year rules.
C2_NextDateIsReferenceDate ==
    Called => calc.next_date = RefDate(calc.billing_date, now)

\* now.day = d = 31 on 31 January of a leap year: rolls to February, day 29
C2_Witness ==
    /\ Called
    /\ calc.billing_date = 31
    /\ now.month = 1 /\ now.day = 31 /\ now.year = 2024
    /\ calc.next_date = [year |-> 2024, month |-> 2, day |-> 29]

\* C3: days_until is the whole-day count of (next payment date at 00:00
\* minus now), is never negative and never greater than 31.
C3_DaysUntilBetween0And31 ==
    Called =>
        LET diff == (ymd2ord(calc.next_date.year, calc.next_date.month,
                             calc.next_date.day)
                     - ymd2ord(now.year, now.month, now.day)) * 24 - now.hour
        IN  /\ calc.days_until * 24 <= diff
            /\ diff < (calc.days_until + 1) * 24
            /\ calc.days_until >= 0
            /\ calc.days_until <= 31

(***************************************************************************)
(* Properties of the notification jobs                                     *)
(***************************************************************************)
\* whole days from t to the reference date of billing day d
RefDaysUntil(d, t) ==
    LET P == RefDate(d, t)
    IN  ((ymd2ord(P.year, P.month, P.day) - ymd2ord(t.year, t.month, t.day))
          * 24 - t.hour) \div 24

\* the subscriptions a reminder run has to attempt
ReminderExpected ==
    { s \in Range(subscriptions) :
        users[s.user_id].payment_reminders
        /\ RefDaysUntil(s.billing_date, now) = 3 }

\* C4: one run of the reminder job attempts a reminder for a subscription
\* exactly when its owner has payment_reminders and its days_until is 3,
\* and attempts it once.
C4_ReminderIffDueInThreeDays ==
    job.name = "payment_reminders" =>
        /\ { <<e.user, e.sub>> : e \in Range(outbox) }
             = { <<s.user_id, s.id>> : s \in ReminderExpected }
        /\ Len(outbox) = Cardinality(ReminderExpected)
        /\ \A e \in Range(outbox) : e.days_until = 3

\* one subscription reminded, one due in 3 days left out for its owner's
\* preference, in the same run
C4_Witness ==
    /\ job.name = "payment_reminders"
    /\ Len(outbox) = 1
    /\ \E s \in Range(subscriptions) :
          /\ ~users[s.user_id].payment_reminders
          /\ RefDaysUntil(s.billing_date, now) = 3
    /\ \E s \in Range(subscriptions) : s.id = outbox[1].sub

\* the months (counted from year 0) that a period can touch
PeriodMonths(t) ==
    LET first == StartOf(t).year * 12 + StartOf(t).month - 1
    IN  first .. (first + 5)

\* the payment date of billing day d in month index k
PaymentDate(d, k) ==
    LET Y == k \div 12
        M == (k % 12) + 1
    IN  [year |-> Y, month |-> M, day |-> Min(d, RefDaysInMonth(Y, M))]

\* the runs that attempted a reminder of subscription id for payment date P
RunsFor(id, P) == { r \in reminded : r.sub = id /\ r.date = P }

\* C5: with one run every day at 09:00, every billing cycle (every monthly
\* payment date) of a subscription whose owner has payment_reminders gets
\* exactly one reminder attempt: never zero and never two.
C5_OneReminderPerCycle ==
    \A s \in Range(subscriptions) :
        users[s.user_id].payment_reminders =>
            \A k \in PeriodMonths(now) :
                LET P == PaymentDate(s.billing_date, k)
                    due == Ord(P) - 4
                IN  /\ Cardinality(RunsFor(s.id, P)) <= 1
                    /\ (Ord(StartOf(now)) <= due /\ due <= lastRun)
                          => Cardinality(RunsFor(s.id, P)) = 1

\* a reminder for the clamped date 29 February 2024 of billing day 31, and
\* one for January 2024 sent in December 2023
C5_Witness ==
    /\ \E r \in reminded :
          r.date = [year |-> 2024, month |-> 2, day |-> 29]
    /\ \E r \in reminded : r.date.year = 2024 /\ r.date.month = 1
    /\ \E s \in Range(subscriptions) : s.billing_date = 31
    /\ now.month = 3

\* the users a run of the budget job has to alert
BudgetExpected ==
    { u \in 1..Len(users) :
        /\ users[u].budget_alerts
        /\ users[u].monthly_budget > 0
        /\ SumPrices(SelectSeq(subscriptions, LAMBDA s : s.user_id = u))
             > users[u].monthly_budget }

\* what the state right after a run of the budget job has to look like
BudgetRunPost ==
        /\ job.name = "budget_alerts"
        /\ { e.user : e \in Range(outbox) } = BudgetExpected
        /\ Len(outbox) = Cardinality(BudgetExpected)
        /\ \A e \in Range(outbox) :
              /\ e.budget = users[e.user].monthly_budget
              /\ e.overage = e.total - e.budget
              /\ e.overage > 0
              /\ e.total =
                   SumPrices(SelectSeq(subscriptions,
                                       LAMBDA s : s.user_id = e.user))

\* C6: one run of the budget job attempts an alert for a user exactly when
\* budget_alerts holds, monthly_budget > 0 and the sum of the prices is
\* strictly greater than the budget; the alert carries total - budget.
C6_AlertIffOverPositiveBudget ==
    [][tally'.runs = tally.runs + 1 => BudgetRunPost']_vars

\* one user alerted with overage 1 (a price of 6 against a budget of 5), the
\* other at total = budget and not alerted
C6_Witness ==
    /\ job.name = "budget_alerts"
    /\ Len(outbox) = 1
    /\ outbox[1].overage = 1
    /\ \E u \in 1..Len(users) :
          /\ users[u].budget_alerts
          /\ users[u].monthly_budget = 5
          /\ get_total_monthly_cost(u) = 5

\* C7: no "already sent" state: every run during which the user is over a
\* positive budget with budget_alerts attempts an alert for that user again.
C7_AlertOnEveryRunWhileOver ==
    \A u \in 1..Len(users) : tally.alerted[u] = tally.over[u]

\* a user alerted by two runs
C7_Witness ==
    \E u \in 1..Len(users) : tally.alerted[u] = 2 /\ tally.runs = 2

\* sum of the prices of the rows 1..n of table subscriptions owned by u
RECURSIVE RefTotal(_, _)
RefTotal(u, n) ==
    IF n = 0 THEN 0
    ELSE (IF subscriptions[n].user_id = u
          THEN subscriptions[n].monthly_price ELSE 0) + RefTotal(u, n - 1)

\* C8: one run of the summary job attempts a summary for every user with
\* monthly_summary and for no other user, whatever the subscriptions, budget
\* and other preferences; it carries the user's subscription list, its count
\* and the sum of its prices.
C8_SummaryIffPreference ==
    job.name = "monthly_summary" =>
        /\ { e.user : e \in Range(outbox) }
             = { u \in 1..Len(users) : users[u].monthly_summary }
        /\ Len(outbox)
             = Cardinality({ u \in 1..Len(users) : users[u].monthly_summary })
        /\ \A e \in Range(outbox) :
              /\ Range(e.subs)
                   = { x \in Range(subscriptions) : x.user_id = e.user }
              /\ e.count = Cardinality(Range(e.subs))
              /\ Len(e.subs) = e.count
              /\ e.total = RefTotal(e.user, Len(subscriptions))

\* a summary for a user without subscriptions and without a budget, none for
\* the other user, who has subscriptions and monthly_summary off
C8_Witness ==
    /\ job.name = "monthly_summary"
    /\ Len(outbox) = 1
    /\ outbox[1].count = 0 /\ outbox[1].total = 0
    /\ users[outbox[1].user].monthly_budget = 0
    /\ ~users[outbox[1].user].budget_alerts
    /\ Len(subscriptions) = 2

\* C9: after any number of calls of init_scheduler in one process there is
\* exactly one active schedule per job identifier, and a due time triggers a
\* job once.
C9_OneActiveSchedulePerJob ==
    Len(schedulers) >= 1 =>
        \A id \in JobIds :
            /\ Cardinality({ k \in 1..Len(schedulers) :
                                 \E j \in schedulers[k].jobs :
                                     j.id = id
                                     /\ schedulers[k].state = "running" }) = 1
            /\ Cardinality({ k \in 1..Len(schedulers) :
                                 \E j \in schedulers[k].jobs :
                                     j.id = id /\ j.last_fire = Ord(now) }) <= 1

\* C10: every send function returns a boolean: True exactly when the message
\* was rendered and the notifier accepted it, False when rendering or sending
\* raised; no exception leaves it.
C10_SendReturnsBoolean ==
    \A e \in Range(outbox) :
        /\ e.result \in {"True", "False"}
        /\ e.result = "True" <=>
              /\ e.mail = "accepted"
              /\ e.kind = "payment_reminder" => e.billing_date >= 1

\* one send refused by the notifier, answered with False
C10_Witness ==
    /\ Len(outbox) = 1
    /\ outbox[1].kind = "budget_alert"
    /\ outbox[1].mail = "send_raises"
    /\ outbox[1].result = "False"

\* the users or subscriptions a run of the job job.name has to attempt
BatchExpected ==
    CASE job.name = "payment_reminders" ->
            { <<s.user_id, s.id>> : s \in ReminderExpected }
      [] job.name = "budget_alerts" -> { <<u, 0>> : u \in BudgetExpected }
      [] job.name = "monthly_summary" ->
            { <<u, 0>> : u \in { v \in 1..Len(users) :
                                    users[v].monthly_summary } }

\* what the state right after a run of a job has to look like
BatchRunPost ==
    /\ job.status = "complete"
    /\ { <<e.user, IF e.kind = "payment_reminder" THEN e.sub ELSE 0>> :
            e \in Range(outbox) } = BatchExpected
    /\ job.sent
         = Cardinality({ i \in 1..Len(outbox) : outbox[i].result = "True" })

\* a step of one of the three job functions
JobStep == job' # job \/ tally'.runs # tally.runs \/ lastRun' # lastRun

\* C11: in a run of any of the three jobs a failed send does not end the
\* batch: everything eligible is attempted, and the count of the run is the
\* number of sends that returned true.
C11_FailedSendKeepsBatch ==
    [][JobStep => BatchRunPost']_vars

\* a run whose first send failed and whose second send succeeded
C11_Witness ==
    /\ job.name = "payment_reminders"
    /\ Len(outbox) = 2
    /\ outbox[1].result = "False"
    /\ outbox[2].result = "True"
    /\ job.sent = 1

\* C14: a run of a job function leaves every row of users and of
\* subscriptions as it was, whether its sends succeed or fail.
C14_JobsOnlyRead ==
    [][JobStep => (users' = users /\ subscriptions' = subscriptions)]_vars

\* a run with one accepted and one failed send over a store of two users and
\* two subscriptions
C14_Witness ==
    /\ job.name = "monthly_summary"
    /\ Len(outbox) = 2
    /\ outbox[1].result = "True"
    /\ outbox[2].result = "False"
    /\ Len(subscriptions) = 2

C13_NoOverlapOfSameJob ==
    \A id \in JobIds :
        Cardinality({ k \in 1..Len(schedulers) :
                        \E j \in schedulers[k].jobs :
                            j.id = id /\ j.instances > 0 }) <= 1

\* C17: the three copies of the date calculation agree: for every billing day
\* and every clock value, the date get_days_until_payment counts to, the date
\* check_payment_reminders computes inline and the date that
\* Subscription.get_next_payment_date formats are the same calendar date, so
\* the date shown on the dashboard is the date of the days_until beside it.
C17_DateCopiesAgree ==
    calc.op = "dashboard" =>
        LET d == calc.billing_date
            date == days_until_next_date(d, now)
        IN  /\ reminder_next_date(d, now) = date
            /\ calc.next_date = strftime(date)
            /\ calc.days_until = timedelta_days(date, now)
            /\ reminder_days_until(d, now) = calc.days_until

\* the dashboard lists a subscription billed on the 31st on the 29th of
\* February: every copy clamps the day to the 29th of the current month
C17_Witness ==
    /\ calc.op = "dashboard"
    /\ calc.billing_date = 31
    /\ now.month = 2 /\ now.day = 29
    /\ calc.upcoming
    /\ calc.next_date = strftime([year |-> now.year, month |-> 2, day |-> 29])

\* an invalid form: a missing field, a text that is no
\* number, a price that is not above 0, a day outside 1..31
BadForm(name, monthly_price, billing_date) ==
    \/ name = ""
    \/ monthly_price.kind \in {"empty", "text", "nan"}
    \/ monthly_price.kind \in {"decimal", "integer"} /\ monthly_price.value <= 0
    \/ billing_date.kind # "integer"
    \/ billing_date.kind = "integer" /\ billing_date.value \notin 1..31

\* C15: after any sequence of add_subscription and delete_subscription
\* requests every stored subscription has a billing day in 1..31 and a price
\* above 0, and a request with an invalid form leaves the table unchanged (no
\* step that changes the table is an add_subscription with an invalid form).
C15_StoredSubscriptionsValid ==
    [][ /\ \A s \in Range(subscriptions') :
              s.billing_date \in 1..31 /\ s.monthly_price > 0
        /\ subscriptions' # subscriptions =>
              \A u \in 1..NumUsers, name \in Names, p \in PriceForms,
                 d \in DayForms :
                  BadForm(name, p, d) => ~AddSubscription(u, name, p, d) ]_vars

\* a rejected request (the price NaN passes both comparisons and is refused by
\* the commit) after one that was stored with the largest day
C15_Witness ==
    /\ request.op = "add_subscription"
    /\ request.answer = "rolled_back"
    /\ Len(subscriptions) = 1
    /\ subscriptions[1].billing_date = 31

\* C18: when add_subscription stores a subscription, a confirmation email is
\* attempted only if the new_subscription preference of the owner is true.
C18_ConfirmationObeysPreference ==
    (request.op = "add_subscription" /\ request.answer = "added")
        => \A i \in 1..Len(outbox) : users[outbox[i].user].new_subscription

\* C16: after any sequence of register and update_profile requests the
\* monthly_budget of every stored user is non-negative.
C16_BudgetNonNegative ==
    \A i \in 1..Len(users) : users[i].monthly_budget >= 0

====
